---- MODULE Spec2Model ----
(***************************************************************************)
(* Model of the onion-routing workshop repository:                         *)
(*   - the node registry (launchRegistry: /status, /registerNode,          *)
(*     /getPrivateKey, /getNodeRegistry) as a state machine;               *)
(*   - the crypto helpers of src/crypto.ts as operators over byte          *)
(*     sequences, applied by the actions of three further specifications.  *)
(* Bytes are 0..255, JavaScript strings are sequences of UTF-16 code       *)
(* units, base64 text is a sequence of one-character strings.              *)
(***************************************************************************)
EXTENDS Integers, Sequences, FiniteSets, TLC

VARIABLES
    nodes,      \* registry: the module-level array `nodes`
    nodeKeys,   \* registry: the module-level object `nodeKeys`
    inflight,   \* registry: per client, the /registerNode request on the wire
    res,        \* registry: the response sent last
    succeeded,  \* registry (history): bodies answered 201, in answer order
    pc,         \* crypto: where the caller of crypto.ts stands
    key,        \* crypto: the CryptoKey (or RSA key pair) the caller holds
    keyStr,     \* crypto: the base64 key string the caller holds
    origin,     \* crypto (history): "generated" or "imported" key
    data,       \* crypto: the string handed to symEncrypt / rsaEncrypt
    iv,         \* crypto (history): the IV getRandomValues gave symEncrypt
    blob,       \* crypto: the base64 ciphertext on the wire
    via,        \* crypto (history): what happened to the blob before decrypt
    call,       \* crypto (history): the last call of subtle.decrypt
    out         \* crypto: the result of the last call that can throw

registryVars == <<nodes, nodeKeys, inflight, res, succeeded>>
cryptoVars == <<pc, key, keyStr, origin, data, iv, blob, via, call, out>>
vars == <<registryVars, cryptoVars>>

\* undefined / nothing there
None == [none |-> TRUE]

(***************************************************************************)
(* Bytes and base64 (Buffer)                                               *)
(***************************************************************************)

Min(a, b) == IF a < b THEN a ELSE b

Bit(x, k) == (x \div (2 ^ k)) % 2

\* bitwise exclusive or of two bytes
Xor8(a, b) ==
    LET d(k) == ((Bit(a, k) + Bit(b, k)) % 2) * (2 ^ k)
    IN  d(0) + d(1) + d(2) + d(3) + d(4) + d(5) + d(6) + d(7)

\* ArrayBuffer.prototype.slice(begin) and slice(begin, end), 0-based
SliceFrom(b, begin) == SubSeq(b, begin + 1, Len(b))
Slice(b, begin, end) == SubSeq(b, begin + 1, Min(end, Len(b)))

B64Chars ==
    <<"A", "B", "C", "D", "E", "F", "G", "H", "I", "J", "K", "L", "M",
      "N", "O", "P", "Q", "R", "S", "T", "U", "V", "W", "X", "Y", "Z",
      "a", "b", "c", "d", "e", "f", "g", "h", "i", "j", "k", "l", "m",
      "n", "o", "p", "q", "r", "s", "t", "u", "v", "w", "x", "y", "z",
      "0", "1", "2", "3", "4", "5", "6", "7", "8", "9", "+", "/">>

\* Buffer.from(buffer).toString("base64"): RFC 4648 with padding
ArrayBufferToBase64(buffer) ==
    LET n == Len(buffer)
        at(i) == IF i <= n THEN buffer[i] ELSE 0
        char(k) ==
            LET g == (k - 1) \div 4
                pos == (k - 1) % 4
                triple == at(3 * g + 1) * 65536 + at(3 * g + 2) * 256
                          + at(3 * g + 3)
            IN  IF pos >= 2 /\ 3 * g + pos > n THEN "="
                ELSE B64Chars[((triple \div (64 ^ (3 - pos))) % 64) + 1]
    IN  [k \in 1..(4 * ((n + 2) \div 3)) |-> char(k)]

\* the decoder's table: the 6-bit value of each base64 character, and of the
\* two base64url characters
Unbase64Table ==
    [c \in {B64Chars[i] : i \in 1..64} \cup {"-", "_"} |->
        CASE c = "-" -> 62
          [] c = "_" -> 63
          [] OTHER -> (CHOOSE i \in 1..64 : B64Chars[i] = c) - 1]

\* the 6-bit value of a character, -1 for one outside the table
Unbase64(c) == IF c \in DOMAIN Unbase64Table THEN Unbase64Table[c] ELSE -1

IsBase64Char(c) == Unbase64(c) >= 0

\* the byte of a character of base64 text in UTF-8
AsciiCode(c) ==
    LET v == Unbase64(c)
    IN  CASE c = "=" -> 61
          [] c = "+" -> 43
          [] c = "/" -> 47
          [] v >= 0 /\ v < 26 -> 65 + v
          [] v >= 26 /\ v < 52 -> 97 + (v - 26)
          [] v >= 52 /\ v < 62 -> 48 + (v - 52)
          [] OTHER -> 63

\* the text before the first "="
BeforePadding(str) ==
    LET pads == {i \in 1..Len(str) : str[i] = "="}
    IN  IF pads = {} THEN str
        ELSE SubSeq(str, 1, (CHOOSE i \in pads : \A j \in pads : i <= j) - 1)

\* Buffer.from(base64, "base64"), sliced to its own bytes: the decoder never
\* throws; it skips every character outside the alphabet, stops at the
\* padding and drops a dangling sextet
Base64ToArrayBuffer(base64) ==
    LET sx == SelectSeq(BeforePadding(base64), IsBase64Char)
        m == Len(sx)
        at(i) == IF i <= m THEN Unbase64(sx[i]) ELSE 0
        byte(j) ==
            LET g == (j - 1) \div 3
                pos == (j - 1) % 3
                triple == at(4 * g + 1) * 262144 + at(4 * g + 2) * 4096
                          + at(4 * g + 3) * 64 + at(4 * g + 4)
            IN  (triple \div (256 ^ (2 - pos))) % 256
    IN  [j \in 1..((m * 3) \div 4) |-> byte(j)]

(***************************************************************************)
(* UTF-8 (TextEncoder, TextDecoder, Buffer.toString("utf-8"))              *)
(***************************************************************************)

IsHighSurrogate(u) == u >= 55296 /\ u <= 56319
IsLowSurrogate(u) == u >= 56320 /\ u <= 57343

\* the UTF-8 bytes of one code point
Utf8Bytes(cp) ==
    IF cp < 128 THEN <<cp>>
    ELSE IF cp < 2048 THEN <<192 + (cp \div 64), 128 + (cp % 64)>>
    ELSE IF cp < 65536
         THEN <<224 + (cp \div 4096), 128 + ((cp \div 64) % 64),
                128 + (cp % 64)>>
    ELSE <<240 + (cp \div 262144), 128 + ((cp \div 4096) % 64),
           128 + ((cp \div 64) % 64), 128 + (cp % 64)>>

\* the bytes the code unit at position i of str contributes: a high
\* surrogate followed by a low one is one code point, the low one of such a
\* pair adds nothing, an unpaired surrogate is encoded as U+FFFD
EncodedAt(str, i) ==
    LET u == str[i]
    IN  IF IsHighSurrogate(u)
        THEN IF i < Len(str) /\ IsLowSurrogate(str[i + 1])
             THEN Utf8Bytes(65536 + (u - 55296) * 1024 + (str[i + 1] - 56320))
             ELSE Utf8Bytes(65533)
        ELSE IF IsLowSurrogate(u)
        THEN IF i > 1 /\ IsHighSurrogate(str[i - 1])
             THEN <<>>
             ELSE Utf8Bytes(65533)
        ELSE Utf8Bytes(u)

\* the bytes of positions lo..hi, in order
RECURSIVE EncodedRange(_, _, _)
EncodedRange(str, lo, hi) ==
    IF lo > hi THEN <<>>
    ELSE IF lo = hi THEN EncodedAt(str, lo)
    ELSE LET mid == (lo + hi) \div 2
         IN  EncodedRange(str, lo, mid) \o EncodedRange(str, mid + 1, hi)

\* new TextEncoder().encode(str): the UTF-8 bytes of the string
StringToUint8Array(str) == EncodedRange(str, 1, Len(str))

\* the UTF-16 code units of one code point
CodeUnits(cp) ==
    IF cp < 65536 THEN <<cp>>
    ELSE <<55296 + ((cp - 65536) \div 1024), 56320 + ((cp - 65536) % 1024)>>

\* how many continuation bytes a lead byte announces, -1 for a byte that
\* cannot lead
Needed(b) ==
    IF b < 128 THEN 0
    ELSE IF b >= 194 /\ b <= 223 THEN 1
    ELSE IF b >= 224 /\ b <= 239 THEN 2
    ELSE IF b >= 240 /\ b <= 244 THEN 3
    ELSE -1

\* the range allowed for the k-th continuation byte after lead byte b
LowerBound(b, k) ==
    IF k = 1 /\ b = 224 THEN 160 ELSE IF k = 1 /\ b = 240 THEN 144 ELSE 128
UpperBound(b, k) ==
    IF k = 1 /\ b = 237 THEN 159 ELSE IF k = 1 /\ b = 244 THEN 143 ELSE 191

\* UTF-8 decoding with replacement: a malformed sequence yields U+FFFD and
\* decoding resumes at the byte that broke it
RECURSIVE Utf8Decode(_)
Utf8Decode(bytes) ==
    IF bytes = <<>> THEN <<>>
    ELSE LET b == Head(bytes)
             need == Needed(b)
             good(k) == /\ k + 1 <= Len(bytes)
                        /\ bytes[k + 1] >= LowerBound(b, k)
                        /\ bytes[k + 1] <= UpperBound(b, k)
             got == IF need >= 1 /\ good(1)
                    THEN IF need >= 2 /\ good(2)
                         THEN IF need >= 3 /\ good(3) THEN 3 ELSE 2
                         ELSE 1
                    ELSE 0
             cp == CASE need = 0 -> b
                     [] need = 1 -> (b - 192) * 64 + (bytes[2] - 128)
                     [] need = 2 -> (b - 224) * 4096 + (bytes[2] - 128) * 64
                                    + (bytes[3] - 128)
                     [] OTHER -> (b - 240) * 262144 + (bytes[2] - 128) * 4096
                                 + (bytes[3] - 128) * 64 + (bytes[4] - 128)
         IN  IF need >= 0 /\ got >= need
             THEN CodeUnits(cp) \o Utf8Decode(SubSeq(bytes, need + 2, Len(bytes)))
             ELSE <<65533>> \o Utf8Decode(SubSeq(bytes, got + 2, Len(bytes)))

\* new TextDecoder().decode(bytes): the default decoder (ignoreBOM false)
\* drops one leading byte order mark
Uint8ArrayToString(uint8Array) ==
    IF Len(uint8Array) >= 3 /\ SubSeq(uint8Array, 1, 3) = <<239, 187, 191>>
    THEN Utf8Decode(SubSeq(uint8Array, 4, Len(uint8Array)))
    ELSE Utf8Decode(uint8Array)

\* Buffer.from(buffer).toString("utf-8"): decodes with replacement and keeps
\* a byte order mark
BufferToStringUtf8(buffer) == Utf8Decode(buffer)

(***************************************************************************)
(* WebCrypto AES-GCM, as far as crypto.ts relies on it.  The cipher is a   *)
(* stand-in with the contract of the real one: the keystream depends on    *)
(* key and IV, the output is the ciphertext followed by a tag of TagLength *)
(* bytes over key, IV and ciphertext, and decryption releases a plaintext  *)
(* only when the tag matches.                                              *)
(***************************************************************************)

IvLength == 12
TagLength == 16
AesKeyBits == 256

Ok(v) == [ok |-> TRUE, value |-> v]
Err(e) == [ok |-> FALSE, error |-> e]

\* the secret CryptoKey over the raw bytes
AesKey(raw) == [type |-> "secret", name |-> "AES-GCM", raw |-> raw]

\* the bytes a random source returns, one outcome per seed
RandomBytes(seed, n) == [i \in 1..n |-> (seed * 53 + i * 7) % 256]

KeyStream(k, nonce, i) ==
    (k.raw[((i - 1) % Len(k.raw)) + 1] + nonce[((i - 1) % Len(nonce)) + 1]
     + i) % 256

RECURSIVE WeightedSum(_, _)
WeightedSum(b, n) == IF n = 0 THEN 0 ELSE n * b[n] + WeightedSum(b, n - 1)

\* the authentication tag over key, IV and ciphertext
GcmTag(k, nonce, ct) ==
    LET t == WeightedSum(nonce \o ct, Len(nonce) + Len(ct))
        h == Len(k.raw) \div 2
    IN  [j \in 1..TagLength |->
            IF j <= TagLength - 3
            THEN (k.raw[j] + k.raw[((j + h - 1) % Len(k.raw)) + 1] + h) % 256
            ELSE (t \div (256 ^ (TagLength - j))) % 256]

\* subtle.encrypt({name: "AES-GCM", iv}, key, data)
AesGcmEncrypt(k, nonce, pt) ==
    LET ct == [i \in 1..Len(pt) |-> Xor8(pt[i], KeyStream(k, nonce, i))]
    IN  ct \o GcmTag(k, nonce, ct)

\* subtle.decrypt({name: "AES-GCM", iv}, key, data): OperationError when the
\* data cannot hold a tag or the tag does not match
AesGcmDecrypt(k, nonce, bytes) ==
    IF Len(bytes) < TagLength THEN Err("OperationError")
    ELSE LET ct == SubSeq(bytes, 1, Len(bytes) - TagLength)
             tag == SubSeq(bytes, Len(bytes) - TagLength + 1, Len(bytes))
         IN  IF nonce = <<>> \/ tag # GcmTag(k, nonce, ct)
             THEN Err("OperationError")
             ELSE Ok([i \in 1..Len(ct) |-> Xor8(ct[i], KeyStream(k, nonce, i))])

\* subtle.importKey("raw", bytes, {name: "AES-GCM"}, ...): DataError unless
\* the bytes are an AES key of 128, 192 or 256 bits
AesImportRaw(bytes) ==
    IF Len(bytes) * 8 \in {128, 192, 256} THEN Ok(AesKey(bytes))
    ELSE Err("DataError")

(***************************************************************************)
(* Symmetric keys (crypto.ts)                                              *)
(***************************************************************************)

\* createRandomSymmetricKey, with the random source's outcome as seed
CreateRandomSymmetricKey(seed) == AesKey(RandomBytes(seed, AesKeyBits \div 8))

ExportSymKey(k) == ArrayBufferToBase64(k.raw)

ImportSymKey(strKey) == AesImportRaw(Base64ToArrayBuffer(strKey))

\* an encryption that puts the IV behind the cipher's output
SymEncryptIvLast(k, str, nonce) ==
    ArrayBufferToBase64(AesGcmEncrypt(k, nonce, StringToUint8Array(str))
                        \o nonce)

\* symEncrypt, with the IV that getRandomValues returned
SymEncrypt(k, str, nonce) ==
    ArrayBufferToBase64(nonce
                        \o AesGcmEncrypt(k, nonce, StringToUint8Array(str)))

\* the parameters symDecrypt hands to subtle.decrypt
SymDecryptCall(encryptedData) ==
    LET encodedData == Base64ToArrayBuffer(encryptedData)
    IN  [iv |-> Slice(encodedData, 0, IvLength),
         data |-> SliceFrom(encodedData, IvLength)]

\* a decryption that catches the cipher's failure and returns ""
SymDecryptSwallow(strKey, encryptedData) ==
    LET k == ImportSymKey(strKey)
        c == SymDecryptCall(encryptedData)
        decryptedData == AesGcmDecrypt(k.value, c.iv, c.data)
    IN  IF ~k.ok THEN k
        ELSE IF ~decryptedData.ok THEN Ok(<<>>)
        ELSE Ok(Uint8ArrayToString(decryptedData.value))

\* symDecrypt: every failure of the calls it awaits is thrown to the caller
SymDecrypt(strKey, encryptedData) ==
    LET k == ImportSymKey(strKey)
        c == SymDecryptCall(encryptedData)
        decryptedData == AesGcmDecrypt(k.value, c.iv, c.data)
    IN  IF ~k.ok THEN k
        ELSE IF ~decryptedData.ok THEN decryptedData
        ELSE Ok(Uint8ArrayToString(decryptedData.value))

(***************************************************************************)
(* WebCrypto RSA-OAEP, as far as crypto.ts relies on it.  A stand-in with  *)
(* the contract of the real one: a ciphertext is as long as the modulus,   *)
(* depends on the OAEP seed, takes at most OaepMaxLen bytes of plaintext,  *)
(* and opens only under the private key of the same pair.                  *)
(***************************************************************************)

RsaModulusBits == 2048
Sha256Bits == 256

RsaModulusBytes == RsaModulusBits \div 8
OaepMaxLen == RsaModulusBytes - 2 * (Sha256Bits \div 8) - 2

\* how many bytes of key material the stand-in keeps per key half
KeyMaterialLen == 8

\* subtle.generateKey(RSA-OAEP, 2048, 65537, SHA-256), one pair per seed
GenerateRsaKeyPair(seed) ==
    [publicKey |-> [type |-> "public", name |-> "RSA-OAEP",
                    n |-> RandomBytes(seed, KeyMaterialLen),
                    usages |-> {"encrypt"}],
     privateKey |-> [type |-> "private", name |-> "RSA-OAEP",
                     n |-> RandomBytes(seed, KeyMaterialLen),
                     d |-> RandomBytes(seed + 100, KeyMaterialLen),
                     usages |-> {"decrypt"}]]

\* subtle.exportKey("spki", key) and ("pkcs8", key): a SEQUENCE tag, the
\* kind of key, the key material
ExportSpki(k) == <<48, 1>> \o k.n
ExportPkcs8(k) == <<48, 2>> \o k.n \o k.d

\* subtle.importKey("spki", bytes, RSA-OAEP/SHA-256, true, ["encrypt"])
ImportSpki(bytes) ==
    IF Len(bytes) = 2 + KeyMaterialLen /\ SubSeq(bytes, 1, 2) = <<48, 1>>
    THEN Ok([type |-> "public", name |-> "RSA-OAEP",
             n |-> SubSeq(bytes, 3, 2 + KeyMaterialLen),
             usages |-> {"encrypt"}])
    ELSE Err("DataError")

\* subtle.importKey("pkcs8", bytes, RSA-OAEP/SHA-256, true, ["decrypt"])
ImportPkcs8(bytes) ==
    IF Len(bytes) = 2 + 2 * KeyMaterialLen /\ SubSeq(bytes, 1, 2) = <<48, 2>>
    THEN Ok([type |-> "private", name |-> "RSA-OAEP",
             n |-> SubSeq(bytes, 3, 2 + KeyMaterialLen),
             d |-> SubSeq(bytes, 3 + KeyMaterialLen, 2 + 2 * KeyMaterialLen),
             usages |-> {"decrypt"}])
    ELSE Err("DataError")

OaepMask(n, seed, i) == (n[((i - 1) % Len(n)) + 1] + seed * 31 + i) % 256

\* subtle.encrypt({name: "RSA-OAEP"}, publicKey, data)
RsaOaepEncrypt(k, bytes, seed) ==
    IF "encrypt" \notin k.usages THEN Err("InvalidAccessError")
    ELSE IF Len(bytes) > OaepMaxLen THEN Err("OperationError")
    ELSE Ok(<<Len(bytes), seed % 256>> \o k.n
            \o [i \in 1..(RsaModulusBytes - 2 - Len(k.n)) |->
                   Xor8(IF i <= Len(bytes) THEN bytes[i] ELSE 0,
                        OaepMask(k.n, seed, i))])

\* subtle.decrypt({name: "RSA-OAEP"}, privateKey, data)
RsaOaepDecrypt(k, bytes) ==
    IF "decrypt" \notin k.usages THEN Err("InvalidAccessError")
    ELSE IF \/ Len(bytes) # RsaModulusBytes
            \/ bytes[1] > OaepMaxLen
            \/ SubSeq(bytes, 3, 2 + Len(k.n)) # k.n
    THEN Err("OperationError")
    ELSE Ok([i \in 1..bytes[1] |->
                Xor8(bytes[2 + Len(k.n) + i], OaepMask(k.n, bytes[2], i))])

(***************************************************************************)
(* RSA keys (crypto.ts)                                                    *)
(***************************************************************************)

ExportPubKey(k) == ArrayBufferToBase64(ExportSpki(k))

ExportPrvKey(k) == IF k = None THEN None ELSE ArrayBufferToBase64(ExportPkcs8(k))

ImportPubKey(strKey) == ImportSpki(Base64ToArrayBuffer(strKey))

ImportPrvKey(strKey) == ImportPkcs8(Base64ToArrayBuffer(strKey))

\* an encryption of the base64 text's own bytes, without decoding it
RsaEncryptNoDecode(b64Data, strPublicKey, seed) ==
    LET publicKey == ImportPubKey(strPublicKey)
        dataBuffer == [i \in 1..Len(b64Data) |-> AsciiCode(b64Data[i])]
        encryptedBuffer == RsaOaepEncrypt(publicKey.value, dataBuffer, seed)
    IN  IF ~publicKey.ok THEN publicKey
        ELSE IF ~encryptedBuffer.ok THEN encryptedBuffer
        ELSE Ok(ArrayBufferToBase64(encryptedBuffer.value))

\* rsaEncrypt, with the OAEP seed the call drew
RsaEncrypt(b64Data, strPublicKey, seed) ==
    LET publicKey == ImportPubKey(strPublicKey)
        dataBuffer == Base64ToArrayBuffer(b64Data)
        encryptedBuffer == RsaOaepEncrypt(publicKey.value, dataBuffer, seed)
    IN  IF ~publicKey.ok THEN publicKey
        ELSE IF ~encryptedBuffer.ok THEN encryptedBuffer
        ELSE Ok(ArrayBufferToBase64(encryptedBuffer.value))

\* rsaDecrypt
RsaDecrypt(str, privateKey) ==
    LET dataBuffer == Base64ToArrayBuffer(str)
        decryptedBuffer == RsaOaepDecrypt(privateKey, dataBuffer)
    IN  IF ~decryptedBuffer.ok THEN decryptedBuffer
        ELSE Ok(BufferToStringUtf8(decryptedBuffer.value))

(***************************************************************************)
(* Registry                                                                *)
(***************************************************************************)

MaxNodeId == 2
MaxQueryLen == 2

NodeIds == 1..MaxNodeId
PubKeys == {"pkA", "pkB"}
Clients == {"c1", "c2"}
QueryChars == {"1", "x", " ", "-"}

RegisterNodeBody == [nodeId : NodeIds, pubKey : PubKeys]

\* the strings of length 0..n over the alphabet S
RECURSIVE StringsUpTo(_, _)
StringsUpTo(S, n) ==
    IF n = 0 THEN {<<>>}
    ELSE LET shorter == StringsUpTo(S, n - 1)
         IN  shorter \cup {Append(s, c) : s \in shorter, c \in S}

Queries == StringsUpTo(QueryChars, MaxQueryLen)

NaN == [isNaN |-> TRUE, value |-> 0]
Num(n) == [isNaN |-> FALSE, value |-> n]

Digits == <<"0", "1", "2", "3", "4", "5", "6", "7", "8", "9">>

\* the value of a decimal digit, -1 for any other character
DigitValue(c) ==
    IF \E d \in 1..10 : Digits[d] = c
    THEN (CHOOSE d \in 1..10 : Digits[d] = c) - 1
    ELSE -1

RECURSIVE SkipSpaces(_)
SkipSpaces(s) ==
    IF s # <<>> /\ Head(s) = " " THEN SkipSpaces(Tail(s)) ELSE s

\* the value of the longest prefix of decimal digits of s, given the value
\* acc of the digits read so far
RECURSIVE DigitsValue(_, _)
DigitsValue(s, acc) ==
    IF s = <<>> \/ DigitValue(Head(s)) < 0 THEN acc
    ELSE DigitsValue(Tail(s), 10 * acc + DigitValue(Head(s)))

\* parseInt(string): leading white space, an optional sign, then the longest
\* prefix of digits; NaN when there is no digit
ParseInt(q) ==
    LET t == SkipSpaces(q)
        neg == t # <<>> /\ Head(t) = "-"
        d == IF neg THEN Tail(t) ELSE t
    IN  IF d = <<>> \/ DigitValue(Head(d)) < 0 THEN NaN
        ELSE Num((IF neg THEN -1 ELSE 1) * DigitsValue(d, 0))

\* a lookup that compares the newest entry only
FindNodeLast(ns, nodeId) ==
    ns # <<>> /\ ns[Len(ns)].nodeId = nodeId

\* nodes.find(node => node.nodeId === nodeId), as a truth value
FindNode(ns, nodeId) ==
    \E i \in 1..Len(ns) : ns[i].nodeId = nodeId

\* an insertion at the front of the list (unshift)
UnshiftNode(ns, body) ==
    <<[nodeId |-> body.nodeId, pubKey |-> body.pubKey]>> \o ns

\* nodes.push({ nodeId, pubKey })
PushNode(ns, body) ==
    Append(ns, [nodeId |-> body.nodeId, pubKey |-> body.pubKey])

\* a success branch that also files the node under nodeKeys
RegisterAlsoStoresKey(ns, nk, body) ==
    [nodes |-> PushNode(ns, body),
     nodeKeys |-> nk \cup {[nodeId |-> body.nodeId, privateKey |-> <<>>,
                            publicKey |-> body.pubKey]}]

\* what the success branch of the /registerNode handler leaves in the two
\* module-level stores: the node is pushed, nodeKeys is not touched
RegisterStores(ns, nk, body) ==
    [nodes |-> PushNode(ns, body), nodeKeys |-> nk]

\* nodeKeys[nodeId]: the entry under the property key of the number, or
\* undefined
LookupNodeKey(nk, n) ==
    IF ~n.isNaN /\ \E k \in nk : k.nodeId = n.value
    THEN CHOOSE k \in nk : k.nodeId = n.value
    ELSE None

\* a client puts a /registerNode request on the wire
SendRegisterNode(c, body) ==
    /\ inflight[c] = None
    /\ inflight' = [inflight EXCEPT ![c] = body]
    /\ UNCHANGED <<nodes, nodeKeys, res, succeeded, cryptoVars>>

\* the /registerNode handler: synchronous, so it runs to completion on one
\* request before any other handler starts
RegisterNode(c) ==
    /\ inflight[c] # None
    /\ LET body == inflight[c]
           after == RegisterStores(nodes, nodeKeys, body)
       IN  IF FindNode(nodes, body.nodeId)
           THEN /\ res' = [route |-> "/registerNode", req |-> body,
                           status |-> 400, body |-> "Node already registered."]
                /\ UNCHANGED <<nodes, nodeKeys, succeeded>>
           ELSE /\ nodes' = after.nodes
                /\ nodeKeys' = after.nodeKeys
                /\ res' = [route |-> "/registerNode", req |-> body,
                           status |-> 201,
                           body |-> "Node registered successfully."]
                /\ succeeded' = Append(succeeded,
                       [nodeId |-> body.nodeId, pubKey |-> body.pubKey])
    /\ inflight' = [inflight EXCEPT ![c] = None]
    /\ UNCHANGED cryptoVars

\* the /getPrivateKey handler
GetPrivateKey(q) ==
    /\ LET nodeId == ParseInt(q)
           nodeKey == LookupNodeKey(nodeKeys, nodeId)
       IN  IF nodeKey = None
           THEN res' = [route |-> "/getPrivateKey", req |-> nodeId,
                        status |-> 404,
                        body |-> "Node not found or key not generated."]
           ELSE res' = [route |-> "/getPrivateKey", req |-> nodeId,
                        status |-> 200,
                        body |-> ArrayBufferToBase64(
                                     StringToUint8Array(nodeKey.privateKey))]
    /\ UNCHANGED <<nodes, nodeKeys, inflight, succeeded, cryptoVars>>

\* the /getNodeRegistry handler
GetNodeRegistry ==
    /\ res' = [route |-> "/getNodeRegistry", status |-> 200, body |-> nodes]
    /\ UNCHANGED <<nodes, nodeKeys, inflight, succeeded, cryptoVars>>

\* the /status handler
Status ==
    /\ res' = [route |-> "/status", status |-> 200, body |-> "live"]
    /\ UNCHANGED <<nodes, nodeKeys, inflight, succeeded, cryptoVars>>

\* the module-level stores as launchRegistry finds them
InitRegistry ==
    /\ nodes = <<>>
    /\ nodeKeys = {}
    /\ inflight = [c \in Clients |-> None]
    /\ res = None
    /\ succeeded = <<>>

\* no call of crypto.ts made yet
InitCrypto ==
    /\ pc = "start"
    /\ key = None
    /\ keyStr = <<>>
    /\ origin = "none"
    /\ data = <<>>
    /\ iv = <<>>
    /\ blob = <<>>
    /\ via = "none"
    /\ call = None
    /\ out = None

Init == InitRegistry /\ InitCrypto

Next ==
    \/ \E c \in Clients, body \in RegisterNodeBody : SendRegisterNode(c, body)
    \/ \E c \in Clients : RegisterNode(c)
    \/ \E q \in Queries : GetPrivateKey(q)
    \/ GetNodeRegistry
    \/ Status

Spec == Init /\ [][Next]_vars

(***************************************************************************)
(* Callers of the symmetric functions                                      *)
(***************************************************************************)

MaxTextLen == 2
MaxTamperTextLen == 1

KeySeeds == {1, 2}
IvSeeds == {4, 5}

\* the pieces texts are made of: "a", e-acute, U+FEFF, the surrogate pair of
\* U+1F600, and each of its two surrogates alone
TextUnits ==
    {<<97>>, <<233>>, <<65279>>, <<55357, 56832>>, <<55357>>, <<56832>>}

RECURSIVE TextsUpTo(_)
TextsUpTo(n) ==
    IF n = 0 THEN {<<>>}
    ELSE LET shorter == TextsUpTo(n - 1)
         IN  shorter \cup {s \o u : s \in shorter, u \in TextUnits}

\* key strings a caller may hand to importSymKey: base64 of 0..33 bytes, and
\* strings with characters outside the alphabet
KeyStrings ==
    LET raw == RandomBytes(3, (AesKeyBits \div 8) + 1)
        good == ArrayBufferToBase64(SubSeq(raw, 1, AesKeyBits \div 8))
    IN  {ArrayBufferToBase64(SubSeq(raw, 1, n)) :
            n \in {0, 15, 16, 24, 31, 32, 33}}
        \cup {<<"!">> \o good, <<"*">> \o Tail(good), <<"!", "?">>}

TruncatedLengths == {0, 1, 11, 12, 13, 27}

CallCreateRandomSymmetricKey(seed) ==
    /\ pc = "start"
    /\ key' = CreateRandomSymmetricKey(seed)
    /\ keyStr' = ExportSymKey(key')
    /\ origin' = "generated"
    /\ pc' = "keyed"
    /\ UNCHANGED <<data, iv, blob, via, call, out, registryVars>>

CallImportSymKey(strKey) ==
    /\ pc = "start"
    /\ out' = ImportSymKey(strKey)
    /\ keyStr' = strKey
    /\ origin' = "imported"
    /\ IF out'.ok THEN key' = out'.value /\ pc' = "keyed"
       ELSE key' = key /\ pc' = "failed"
    /\ UNCHANGED <<data, iv, blob, via, call, registryVars>>

CallSymEncrypt(str, seed) ==
    /\ pc = "keyed"
    /\ data' = str
    /\ iv' = RandomBytes(seed, IvLength)
    /\ blob' = SymEncrypt(key, str, iv')
    /\ via' = "encrypted"
    /\ pc' = "encrypted"
    /\ UNCHANGED <<key, keyStr, origin, call, out, registryVars>>

\* the blob loses its tail on the way: only its first n bytes arrive
TruncateBlob(n) ==
    /\ pc = "encrypted"
    /\ via = "encrypted"
    /\ blob' = ArrayBufferToBase64(Slice(Base64ToArrayBuffer(blob), 0, n))
    /\ via' = "truncated"
    /\ UNCHANGED <<pc, key, keyStr, origin, data, iv, call, out, registryVars>>

\* one bit of the blob's decoded bytes is flipped on the way
FlipBit ==
    /\ pc = "encrypted"
    /\ via = "encrypted"
    /\ LET bytes == Base64ToArrayBuffer(blob)
       IN  \E i \in 1..Len(bytes), k \in 0..7 :
               blob' = ArrayBufferToBase64(
                           [bytes EXCEPT ![i] = Xor8(bytes[i], 2 ^ k)])
    /\ via' = "flipped"
    /\ UNCHANGED <<pc, key, keyStr, origin, data, iv, call, out, registryVars>>

CallSymDecrypt ==
    /\ pc = "encrypted"
    /\ out' = SymDecrypt(keyStr, blob)
    /\ call' = IF ImportSymKey(keyStr).ok THEN SymDecryptCall(blob) ELSE None
    /\ pc' = "decrypted"
    /\ UNCHANGED <<key, keyStr, origin, data, iv, blob, via, registryVars>>

NextSym ==
    \/ \E seed \in KeySeeds : CallCreateRandomSymmetricKey(seed)
    \/ \E strKey \in KeyStrings : CallImportSymKey(strKey)
    \/ \E str \in TextsUpTo(MaxTextLen), seed \in IvSeeds :
           CallSymEncrypt(str, seed)
    \/ \E n \in TruncatedLengths : TruncateBlob(n)
    \/ CallSymDecrypt

SpecSym == Init /\ [][NextSym]_vars

NextTamper ==
    \/ \E seed \in KeySeeds : CallCreateRandomSymmetricKey(seed)
    \/ \E str \in TextsUpTo(MaxTamperTextLen), seed \in IvSeeds :
           CallSymEncrypt(str, seed)
    \/ FlipBit
    \/ CallSymDecrypt

SpecTamper == Init /\ [][NextTamper]_vars

(***************************************************************************)
(* Callers of the RSA functions                                            *)
(***************************************************************************)

OaepSeeds == {7, 8}

\* well-formed texts: "a", e-acute, U+FEFF and the surrogate pair of U+1F600
RECURSIVE WellFormedTextsUpTo(_)
WellFormedTextsUpTo(n) ==
    IF n = 0 THEN {<<>>}
    ELSE LET shorter == WellFormedTextsUpTo(n - 1)
         IN  shorter \cup
             {s \o u : s \in shorter,
                       u \in {<<97>>, <<233>>, <<65279>>, <<55357, 56832>>}}

\* a text one byte over what OAEP takes
LongText == [i \in 1..(OaepMaxLen + 1) |-> 97]

\* what a caller hands to rsaEncrypt for the text t:
\* Buffer.from(t, "utf-8").toString("base64")
Base64OfText(t) == ArrayBufferToBase64(StringToUint8Array(t))

CallGenerateRsaKeyPair(seed) ==
    /\ pc = "start"
    /\ key' = GenerateRsaKeyPair(seed)
    /\ keyStr' = ExportPubKey(key'.publicKey)
    /\ origin' = "generated"
    /\ pc' = "paired"
    /\ UNCHANGED <<data, iv, blob, via, call, out, registryVars>>

CallRsaEncrypt(t, seed) ==
    /\ pc = "paired"
    /\ data' = t
    /\ out' = RsaEncrypt(Base64OfText(t), keyStr, seed)
    /\ IF out'.ok THEN blob' = out'.value /\ pc' = "rsaEncrypted"
       ELSE blob' = blob /\ pc' = "failed"
    /\ UNCHANGED <<key, keyStr, origin, iv, via, call, registryVars>>

\* rsaDecrypt with the private key object of the pair
CallRsaDecrypt ==
    /\ pc = "rsaEncrypted"
    /\ out' = RsaDecrypt(blob, key.privateKey)
    /\ via' = "original"
    /\ pc' = "rsaDecrypted"
    /\ UNCHANGED <<key, keyStr, origin, data, iv, blob, call, registryVars>>

\* rsaDecrypt with importPrvKey(exportPrvKey(privateKey))
CallRsaDecryptReimported ==
    /\ pc = "rsaEncrypted"
    /\ LET prv == ImportPrvKey(ExportPrvKey(key.privateKey))
       IN  out' = IF prv.ok THEN RsaDecrypt(blob, prv.value) ELSE prv
    /\ via' = "reimported"
    /\ pc' = "rsaDecrypted"
    /\ UNCHANGED <<key, keyStr, origin, data, iv, blob, call, registryVars>>

NextRsa ==
    \/ \E seed \in KeySeeds : CallGenerateRsaKeyPair(seed)
    \/ \E t \in WellFormedTextsUpTo(MaxTextLen) \cup {LongText},
          seed \in OaepSeeds : CallRsaEncrypt(t, seed)
    \/ CallRsaDecrypt
    \/ CallRsaDecryptReimported

SpecRsa == Init /\ [][NextRsa]_vars

(***************************************************************************)
(* Properties of the registry (under Spec)                                 *)
(***************************************************************************)

HasNode(ns, nodeId) == \E i \in 1..Len(ns) : ns[i].nodeId = nodeId

IsPrefix(s, t) == Len(s) <= Len(t) /\ SubSeq(t, 1, Len(s)) = s

\* C1: in every reachable state, whatever the order in which concurrent
\* /registerNode requests are handled, the node list holds at most one
\* entry per nodeId.
NodeIdsUnique ==
    \A i, j \in 1..Len(nodes) : nodes[i].nodeId = nodes[j].nodeId => i = j

\* a duplicate was just rejected while a further request for the same
\* nodeId is still on the wire
ConcurrentDuplicateRejected ==
    /\ res # None
    /\ res.route = "/registerNode"
    /\ res.status = 400
    /\ \E c \in Clients :
           inflight[c] # None /\ inflight[c].nodeId = res.req.nodeId
    /\ Len(nodes) >= 2

\* C2: handling a /registerNode request whose nodeId is already listed
\* answers with a non-success status and leaves the node list as it was,
\* whatever pubKey the request carries.
DuplicateRejected ==
    [][\A c \in Clients :
          (RegisterNode(c) /\ HasNode(nodes, inflight[c].nodeId))
              => (res'.status >= 400 /\ nodes' = nodes)]_vars

\* a duplicate with another pubKey was rejected and the first entry still
\* carries its own pubKey
DuplicateWithOtherKeyRejected ==
    /\ res # None
    /\ res.route = "/registerNode"
    /\ res.status = 400
    /\ \E i \in 1..Len(nodes) :
           nodes[i].nodeId = res.req.nodeId /\ nodes[i].pubKey # res.req.pubKey

\* C3: the node list is at all times the list of the registrations answered
\* 201, in the order of the answers, /getNodeRegistry answers with exactly
\* that list, and no step removes, reorders or rewrites a listed entry.
ListingIsSuccessLog ==
    /\ [](/\ nodes = succeeded
          /\ (res # None /\ res.route = "/getNodeRegistry")
                 => res.body = succeeded)
    /\ [][IsPrefix(nodes, nodes')]_vars

\* a listing of two nodes that were registered in descending nodeId order
ListingInRegistrationOrder ==
    /\ res # None
    /\ res.route = "/getNodeRegistry"
    /\ Len(res.body) >= 2
    /\ res.body[1].nodeId > res.body[2].nodeId

\* C10: nodeKeys is empty in every reachable state and every /getPrivateKey
\* request is answered 404.
KeyStoreStaysEmpty ==
    /\ nodeKeys = {}
    /\ (res # None /\ res.route = "/getPrivateKey") => res.status = 404

\* the private key of a registered node was asked for and not found
RegisteredNodeKeyNotFound ==
    /\ res # None
    /\ res.route = "/getPrivateKey"
    /\ res.status = 404
    /\ ~res.req.isNaN
    /\ HasNode(nodes, res.req.value)

(***************************************************************************)
(* Properties of the symmetric functions (under SpecSym and SpecTamper)    *)
(***************************************************************************)

\* the number of bytes of the UTF-8 encoding of a string
RECURSIVE Utf8Length(_)
Utf8Length(str) ==
    IF str = <<>> THEN 0
    ELSE IF Head(str) < 128 THEN 1 + Utf8Length(Tail(str))
    ELSE IF Head(str) < 2048 THEN 2 + Utf8Length(Tail(str))
    ELSE IF /\ IsHighSurrogate(Head(str))
            /\ Len(str) >= 2
            /\ IsLowSurrogate(str[2])
         THEN 4 + Utf8Length(Tail(Tail(str)))
    ELSE 3 + Utf8Length(Tail(str))

\* RFC 4648 base64: groups of four characters of the standard alphabet, the
\* last group padded with at most two "="
IsStrictBase64(str) ==
    /\ Len(str) % 4 = 0
    /\ \A i \in 1..Len(str) :
           \/ str[i] \in {B64Chars[k] : k \in 1..64}
           \/ /\ str[i] = "="
              /\ i >= Len(str) - 1
              /\ \A j \in i..Len(str) : str[j] = "="

\* a decrypt of an untouched blob under a key that createRandomSymmetricKey
\* made
DecryptedUntouched ==
    pc = "decrypted" /\ via = "encrypted" /\ origin = "generated"

\* no surrogate of the string is unpaired
IsWellFormed(str) ==
    \A i \in 1..Len(str) :
        /\ IsHighSurrogate(str[i])
               => (i < Len(str) /\ IsLowSurrogate(str[i + 1]))
        /\ IsLowSurrogate(str[i]) => (i > 1 /\ IsHighSurrogate(str[i - 1]))

\* C4: symDecrypt(exportSymKey(K), symEncrypt(K, p)) returns p, for every
\* generated key K and every plaintext string p.  Stated here for the
\* strings that are text (no unpaired surrogate, which no UTF-8 encoding
\* can carry); a string that breaks this breaks the claim as worded.
SymRoundTrip == (DecryptedUntouched /\ IsWellFormed(data)) => out = Ok(data)

\* the round trip of C4 for the well-formed strings that do not start with
\* U+FEFF: this much the code does
SymRoundTripPlainText ==
    (/\ DecryptedUntouched
     /\ IsWellFormed(data)
     /\ (data = <<>> \/ data[1] # 65279))
        => out = Ok(data)

\* C6: subtle.decrypt is never called with an IV of fewer than 12 bytes.
ShortBlobNeverDecrypted == call # None => Len(call.iv) = 12

\* C7: importSymKey returns a key only for valid base64 of exactly 32
\* bytes, and symDecrypt succeeds only with such a key string.
ImportSymKeyStrict ==
    /\ (origin = "imported" /\ key # None)
           => (IsStrictBase64(keyStr) /\ Len(key.raw) = 32)
    /\ (pc = "decrypted" /\ out.ok)
           => (IsStrictBase64(keyStr) /\ Len(key.raw) = 32)

\* C8: symDecrypt of a blob with one bit of its decoded bytes flipped
\* fails; it returns no plaintext.
FlippedBlobRejected == (pc = "decrypted" /\ via = "flipped") => ~out.ok

\* a blob with a bit flipped in its ciphertext bytes was refused
FlippedCiphertextRefused ==
    /\ pc = "decrypted"
    /\ via = "flipped"
    /\ ~out.ok
    /\ LET b == Base64ToArrayBuffer(blob)
           sent == Base64ToArrayBuffer(SymEncrypt(key, data, iv))
       IN  \E i \in 13..(Len(b) - 16) : b[i] # sent[i]

\* C9: the decoded blob is the IV of the call, then the AES-GCM output
\* (ciphertext and 16-byte tag), 12 + byteLength(UTF-8 of p) + 16 bytes in
\* all, and symDecrypt splits a blob at offset 12.
BlobLayout ==
    /\ (pc = "encrypted" /\ via = "encrypted") =>
           LET b == Base64ToArrayBuffer(blob)
           IN  /\ Len(b) = 12 + Utf8Length(data) + 16
               /\ SubSeq(b, 1, 12) = iv
               /\ SubSeq(b, 13, Len(b))
                      = AesGcmEncrypt(key, iv, StringToUint8Array(data))
    /\ (pc = "decrypted" /\ via = "encrypted" /\ call # None) =>
           LET b == Base64ToArrayBuffer(blob)
           IN  /\ call.iv = SubSeq(b, 1, 12)
               /\ call.iv = iv
               /\ call.data = SubSeq(b, 13, Len(b))

\* a blob of a text with multi-byte characters was encrypted and decrypted
MultiByteBlobDecrypted ==
    /\ pc = "decrypted"
    /\ via = "encrypted"
    /\ out.ok
    /\ Len(data) = 2
    /\ Len(Base64ToArrayBuffer(blob)) = 12 + 5 + 16

(***************************************************************************)
(* Properties of the RSA functions (under SpecRsa)                         *)
(***************************************************************************)

\* C5: rsaDecrypt(rsaEncrypt(base64(t), exportPubKey(A.publicKey)), k)
\* returns the text t, for k the private key of A and for k re-imported
\* from its export.
RsaRoundTrip == pc = "rsaDecrypted" => out = Ok(data)

\* a text that starts with U+FEFF came back whole under the re-imported
\* private key
RsaReimportedRoundTrip ==
    /\ pc = "rsaDecrypted"
    /\ via = "reimported"
    /\ data = <<65279, 97>>
    /\ out = Ok(data)

====
